---------------------------- MODULE Spec2Model ----------------------------
(***************************************************************************)
(* Model of the speech-to-text servers of ralph-cli:                       *)
(*   src/ralph-voice-app/python/stt_server.py  (voice app, faster-whisper) *)
(*   src/ui/python/stt_server.py               (UI server, Flask/whisper)  *)
(* and of its stream renderer, src/bin/stream_renderer.py.                 *)
(* Bytes are naturals 0..255, byte strings are sequences of bytes.         *)
(***************************************************************************)
EXTENDS Integers, Sequences, FiniteSets, TLC

VARIABLES
    input,            \* argument of the pure function under study
    output,           \* its return value
    returned,         \* whether the call has returned
    server,           \* the process: "starting", "serving" or "exited"
    whisper_model,    \* the global model instance, 0 for None
    constructed,      \* how many model instances have been constructed
    files,            \* the temporary directory: file name -> contents
    pc,               \* where each worker thread is in its request
    blob,             \* the request body as received
    container,        \* what PyAV finds in the request body
    audio_data,       \* local variable audio_data
    detected_format,  \* local variable detected_format
    model,            \* local variable model
    temp_path,        \* local variable temp_path, 0 while unassigned
    created,          \* the temporary files the request has created
    heard,            \* what the engine has been given to read in the request
    unlink_failed,    \* whether os.unlink has raised in the request
    result,           \* how the call of the transcription function ended
    response,         \* the HTTP response sent
    last_text,        \* renderer: the global last_text
    shown_tools,      \* renderer: the global shown_tools
    stdout,           \* renderer: what has been printed, piece by piece
    event,            \* renderer: the event read from stdin (data), being rendered
    offered,          \* renderer: the non-empty tool ids met in tool_use blocks
    chain,            \* renderer: only text blocks so far, each extending the last
    prev_text         \* renderer: the text of the last text block met

harness == <<input, output, returned>>

globals == <<server, whisper_model, constructed, files>>

locals == <<pc, blob, container, audio_data, detected_format, model, temp_path,
            created, heard, unlink_failed, result, response>>

renderer == <<last_text, shown_tools, stdout, event, offered, chain, prev_text>>

vars == <<harness, globals, locals, renderer>>

----------------------------------------------------------------------------
(* Bounds of the model *)

\* longest tail appended to a (partial) magic number
MaxTail == 2

\* longest int16 sequence given to the WAV encoder
MaxPcm == 2

\* most sample positions in a decoded stream
MaxSamples == 2

\* worker threads of the UI server
NumWorkers == 2

\* names the temporary directory can hold
MaxFiles == 2

----------------------------------------------------------------------------
(* The process before it starts, and the harness at rest *)

Workers == 1..NumWorkers

TempNames == 1..MaxFiles

NoResult == [kind |-> "none", success |-> FALSE, text |-> "", error |-> <<>>]

NoResponse == [status |-> 0, body |-> NoResult]

\* no event is being rendered
NoData == [type |-> "none", subtype |-> "", content |-> <<>>, result |-> <<>>]

\* the renderer before its first line (lines 20-22)
Quiet ==
    /\ last_text = <<>>
    /\ shown_tools = {}
    /\ stdout = <<>>
    /\ event = NoData
    /\ offered = {}
    /\ chain = TRUE
    /\ prev_text = <<>>

Boot ==
    /\ Quiet
    /\ server = "starting"
    /\ whisper_model = 0
    /\ constructed = 0
    /\ files = <<>>
    /\ pc = [r \in Workers |-> "idle"]
    /\ blob = [r \in Workers |-> <<>>]
    /\ container = [r \in Workers |-> <<>>]
    /\ audio_data = [r \in Workers |-> <<>>]
    /\ detected_format = [r \in Workers |-> "None"]
    /\ model = [r \in Workers |-> 0]
    /\ temp_path = [r \in Workers |-> 0]
    /\ created = [r \in Workers |-> {}]
    /\ heard = [r \in Workers |-> <<>>]
    /\ unlink_failed = [r \in Workers |-> FALSE]
    /\ result = [r \in Workers |-> NoResult]
    /\ response = [r \in Workers |-> NoResponse]

NoCall ==
    /\ input = <<>>
    /\ output = <<>>
    /\ returned = FALSE

----------------------------------------------------------------------------
(* Byte strings *)

Byte == 0..255

\* Python slice s[:n]
Take(s, n) == SubSeq(s, 1, IF Len(s) < n THEN Len(s) ELSE n)

\* b'RIFF', b'\x1aE\xdf\xa3', b'ID3', b'\xff\xfb', b'OggS', b'fLaC'
RIFF == <<82, 73, 70, 70>>
EBML == <<26, 69, 223, 163>>
ID3 == <<73, 68, 51>>
MPEGSYNC == <<255, 251>>
OGGS == <<79, 103, 103, 83>>
FLAC == <<102, 76, 97, 67>>

----------------------------------------------------------------------------
(* detect_audio_format *)

\* a slip: the candidate buffer is compared whole, not its leading slice
detect_audio_format_noslice(buf) ==
    IF buf = RIFF THEN "wav"
    ELSE IF buf = EBML THEN "webm"
    ELSE IF buf = ID3 \/ buf = MPEGSYNC THEN "mp3"
    ELSE IF buf = OGGS THEN "ogg"
    ELSE IF buf = FLAC THEN "flac"
    ELSE "None"

\* a slip: every signature is looked for in a four-byte slice
detect_audio_format_four(buf) ==
    IF Take(buf, 4) = RIFF THEN "wav"
    ELSE IF Take(buf, 4) = EBML THEN "webm"
    ELSE IF Take(buf, 4) = ID3 \/ Take(buf, 4) = MPEGSYNC THEN "mp3"
    ELSE IF Take(buf, 4) = OGGS THEN "ogg"
    ELSE IF Take(buf, 4) = FLAC THEN "flac"
    ELSE "None"

\* a slip: the Ogg and FLAC tests are swapped
detect_audio_format_swapped(buf) ==
    IF Take(buf, 4) = RIFF THEN "wav"
    ELSE IF Take(buf, 4) = EBML THEN "webm"
    ELSE IF Take(buf, 3) = ID3 \/ Take(buf, 2) = MPEGSYNC THEN "mp3"
    ELSE IF Take(buf, 4) = OGGS THEN "flac"
    ELSE IF Take(buf, 4) = FLAC THEN "ogg"
    ELSE "None"

detect_audio_format(buf) ==
    IF Take(buf, 4) = RIFF THEN "wav"
    ELSE IF Take(buf, 4) = EBML THEN "webm"
    ELSE IF Take(buf, 3) = ID3 \/ Take(buf, 2) = MPEGSYNC THEN "mp3"
    ELSE IF Take(buf, 4) = OGGS THEN "ogg"
    ELSE IF Take(buf, 4) = FLAC THEN "flac"
    ELSE "None"

----------------------------------------------------------------------------
(* The blobs the sniffer is tried on: every prefix of every signature,      *)
(* followed by every tail of at most MaxTail bytes over {00, FF}.           *)

Signatures == {RIFF, EBML, ID3, MPEGSYNC, OGGS, FLAC}

TailBytes == {0, 255}

Tails == UNION {[1..n -> TailBytes] : n \in 0..MaxTail}

Blobs == {Take(sig, k) \o t : sig \in Signatures, k \in 0..4, t \in Tails}

SniffInit ==
    /\ input \in {<<a, b>> : a \in Blobs, b \in Blobs}
    /\ output = <<>>
    /\ returned = FALSE
    /\ Boot

\* detect_audio_format applied to both blobs
Sniff ==
    /\ ~returned
    /\ returned' = TRUE
    /\ output' = <<detect_audio_format(input[1]), detect_audio_format(input[2])>>
    /\ UNCHANGED <<input, globals, locals, renderer>>

SniffNext == Sniff

SpecSniff == SniffInit /\ [][SniffNext]_vars

----------------------------------------------------------------------------
(* Claims about detect_audio_format (SpecSniff) *)

Formats == {"wav", "webm", "mp3", "ogg", "flac", "None"}

\* b has at least Len(p) bytes and they are p
HasPrefix(b, p) == Len(b) >= Len(p) /\ \A i \in 1..Len(p) : b[i] = p[i]

\* the documented table, read top to bottom
TableFormat(b) ==
    CASE HasPrefix(b, <<82, 73, 70, 70>>) -> "wav"
      [] HasPrefix(b, <<26, 69, 223, 163>>) -> "webm"
      [] HasPrefix(b, <<73, 68, 51>>) \/ HasPrefix(b, <<255, 251>>) -> "mp3"
      [] HasPrefix(b, <<79, 103, 103, 83>>) -> "ogg"
      [] HasPrefix(b, <<102, 76, 97, 67>>) -> "flac"
      [] OTHER -> "None"

AllZero(b) == Len(b) > 0 /\ \A i \in 1..Len(b) : b[i] = 0

\* C1: every blob is given exactly one format, the one the signature table
\* assigns in its priority order, and a blob of zero bytes is UNKNOWN (None)
C1_Classify ==
    returned =>
        \A i \in 1..2 :
            /\ output[i] \in Formats
            /\ output[i] = TableFormat(input[i])
            /\ AllZero(input[i]) => output[i] = "None"

C1_Witness ==
    /\ returned
    /\ input[1] = <<102, 76, 97, 67, 0>> /\ output[1] = "flac"
    /\ input[2] = <<0, 0>> /\ output[2] = "None"

\* C2 (as claimed): every blob shorter than 4 bytes is UNKNOWN
C2_ShortIsUnknown ==
    returned =>
        \A i \in 1..2 : Len(input[i]) < 4 => output[i] = "None"

\* C2 (amended): a blob shorter than 4 bytes is UNKNOWN, except that the blob
\* ID3 and the blobs of 2 or 3 bytes starting FF FB are MP3
C2_ShortIsUnknownOrMp3 ==
    returned =>
        \A i \in 1..2 :
            Len(input[i]) < 4 =>
                IF \/ input[i] = <<73, 68, 51>>
                   \/ (Len(input[i]) >= 2 /\ input[i][1] = 255 /\ input[i][2] = 251)
                THEN output[i] = "mp3"
                ELSE output[i] = "None"

C2_Witness ==
    /\ returned
    /\ input[1] = <<73, 68, 51>> /\ output[1] = "mp3"
    /\ input[2] = <<82, 73, 70>> /\ output[2] = "None"

\* C3: two blobs with the same first four bytes get the same format, and a
\* blob starting 4F 67 67 53 is OGG whatever follows
C3_LeadingBytesOnly ==
    returned =>
        /\ Take(input[1], 4) = Take(input[2], 4) => output[1] = output[2]
        /\ \A i \in 1..2 : HasPrefix(input[i], <<79, 103, 103, 83>>) => output[i] = "ogg"

C3_Witness ==
    /\ returned
    /\ input[1] = <<79, 103, 103, 83, 0, 255>>
    /\ input[2] = <<79, 103, 103, 83, 255>>
    /\ output = <<"ogg", "ogg">>

----------------------------------------------------------------------------
(* A call that returns a value or raises *)

Ok(v) == [raised |-> FALSE, value |-> v, error |-> ""]

Raise(e) == [raised |-> TRUE, value |-> <<>>, error |-> e]

----------------------------------------------------------------------------
(* struct.pack and ndarray.tobytes *)

\* struct.pack('<I', v) accepts 0 <= v < 2^32 (else struct.error)
CanPackI(v) == v >= 0 /\ v \div 65536 < 65536

\* struct.pack('<I', v): four bytes, least significant first
pack_I(v) == <<v % 256, (v \div 256) % 256, (v \div 65536) % 256, (v \div 16777216) % 256>>

\* struct.pack('<H', v): two bytes, least significant first
pack_H(v) == <<v % 256, (v \div 256) % 256>>

\* one int16 in memory (two's complement, little-endian host)
int16_bytes(v) ==
    LET u == IF v < 0 THEN v + 65536 ELSE v
    IN  <<u % 256, u \div 256>>

RECURSIVE tobytes(_)
\* ndarray.tobytes() of an int16 array: the elements in order
tobytes(a) == IF a = <<>> THEN <<>> ELSE int16_bytes(Head(a)) \o tobytes(Tail(a))

\* b'WAVE', b'fmt ', b'data'
WAVE == <<87, 65, 86, 69>>
FMT == <<102, 109, 116, 32>>
DATA == <<100, 97, 116, 97>>

----------------------------------------------------------------------------
(* convert_to_wav, the WAV file (lines 124-146) *)

\* a slip: the data size counts samples, not bytes
wav_encode_count(samples_int16) ==
    LET num_samples == Len(samples_int16)
        data_size == num_samples
    IN  IF ~CanPackI(36 + data_size) THEN Raise("struct.error")
        ELSE Ok(RIFF \o pack_I(36 + data_size) \o WAVE \o FMT \o pack_I(16)
                \o pack_H(1) \o pack_H(1) \o pack_I(16000) \o pack_I(16000 * 2)
                \o pack_H(2) \o pack_H(16) \o DATA \o pack_I(data_size)
                \o tobytes(samples_int16))

RECURSIVE tobytes_unsigned(_)
\* a slip: the samples are written as magnitudes, the sign dropped
tobytes_unsigned(a) ==
    IF a = <<>> THEN <<>>
    ELSE int16_bytes(IF Head(a) < 0 THEN -Head(a) ELSE Head(a)) \o tobytes_unsigned(Tail(a))

wav_encode_unsigned(samples_int16) ==
    LET num_samples == Len(samples_int16)
        data_size == num_samples * 2
    IN  IF ~CanPackI(36 + data_size) THEN Raise("struct.error")
        ELSE Ok(RIFF \o pack_I(36 + data_size) \o WAVE \o FMT \o pack_I(16)
                \o pack_H(1) \o pack_H(1) \o pack_I(16000) \o pack_I(16000 * 2)
                \o pack_H(2) \o pack_H(16) \o DATA \o pack_I(data_size)
                \o tobytes_unsigned(samples_int16))

wav_encode(samples_int16) ==
    LET num_samples == Len(samples_int16)
        data_size == num_samples * 2
    IN  IF ~CanPackI(36 + data_size) THEN Raise("struct.error")
        ELSE Ok(RIFF \o pack_I(36 + data_size) \o WAVE \o FMT \o pack_I(16)
                \o pack_H(1) \o pack_H(1) \o pack_I(16000) \o pack_I(16000 * 2)
                \o pack_H(2) \o pack_H(16) \o DATA \o pack_I(data_size)
                \o tobytes(samples_int16))

----------------------------------------------------------------------------
(* The encoder tried on int16 sequences of at most MaxPcm samples *)

Int16Probe == {-32768, -32767, -257, -256, -1, 0, 1, 255, 256, 32767}

PcmInputs == UNION {[1..n -> Int16Probe] : n \in 0..MaxPcm}

WavInit ==
    /\ input \in PcmInputs
    /\ output = <<>>
    /\ returned = FALSE
    /\ Boot

\* the WAV file of the samples
Encode ==
    /\ ~returned
    /\ returned' = TRUE
    /\ output' = wav_encode(input)
    /\ UNCHANGED <<input, globals, locals, renderer>>

WavNext == Encode

SpecWav == WavInit /\ [][WavNext]_vars

----------------------------------------------------------------------------
(* Reading a WAV file back *)

U16At(b, off) == b[off + 1] + 256 * b[off + 2]

U32At(b, off) == b[off + 1] + 256 * b[off + 2] + 65536 * b[off + 3] + 16777216 * b[off + 4]

S16At(b, off) == IF U16At(b, off) >= 32768 THEN U16At(b, off) - 65536 ELSE U16At(b, off)

BytesAt(b, off, n) == SubSeq(b, off + 1, off + n)

\* the samples of the data chunk, whose size is read from the header
ParsedSamples(b) == [k \in 1..(U32At(b, 40) \div 2) |-> S16At(b, 44 + 2 * (k - 1))]

----------------------------------------------------------------------------
(* Claims about the WAV file (SpecWav) *)

\* C8: in every WAV made from N samples the u32 at offset 4 is 36 + data_size,
\* the u32 at offset 40 is data_size, and data_size is 2 * N, the number of
\* bytes that follow the header
C8_ChunkSizes ==
    (returned /\ ~output.raised) =>
        LET data_size == Len(output.value) - 44
        IN  /\ data_size = 2 * Len(input)
            /\ U32At(output.value, 4) = 36 + data_size
            /\ U32At(output.value, 40) = data_size

C8_Witness ==
    /\ returned /\ ~output.raised
    /\ Len(input) = 2
    /\ U32At(output.value, 4) = 40
    /\ U32At(output.value, 40) = 4

\* C10: parsing the WAV made from a sample sequence gives back the same
\* sequence, sample rate 16000 and one channel
C10_RoundTrip ==
    (returned /\ ~output.raised) =>
        /\ ParsedSamples(output.value) = input
        /\ U32At(output.value, 24) = 16000
        /\ U16At(output.value, 22) = 1

C10_Witness ==
    /\ returned /\ ~output.raised
    /\ input = <<-32768, 255>>
    /\ ParsedSamples(output.value) = <<-32768, 255>>

----------------------------------------------------------------------------
(* convert_to_wav, decoding (lines 81-112)                                  *)
(*                                                                          *)
(* What PyAV finds in a buffer is a record                                  *)
(*   [open, streams, frames, decode_error]                                  *)
(* open: "ok", or the exception of `import av` / av.open;                   *)
(* streams: the container's streams, each [type, rate] (rate 0: no rate);   *)
(* frames: the frames the audio stream decodes to, each [format, data],     *)
(*   data[c][k] the amplitude of channel c at sample position k;            *)
(* decode_error: decoding raises once these frames have been yielded.       *)
(* Amplitudes are integers, in an arbitrary unit; a mean is a pair          *)
(* <<numerator, denominator>>.                                              *)

\* frame.to_ndarray(): planar formats give one row per channel, packed
\* formats a single row with the channels interleaved
to_ndarray(frame) ==
    LET c == Len(frame.data)
        n == Len(frame.data[1])
    IN  IF frame.format = "fltp" THEN frame.data
        ELSE <<[x \in 1..(c * n) |-> frame.data[((x - 1) % c) + 1][((x - 1) \div c) + 1]]>>

RECURSIVE ColumnSum(_, _, _)
\* a[1][j] + ... + a[i][j]
ColumnSum(a, j, i) == IF i = 0 THEN 0 ELSE a[i][j] + ColumnSum(a, j, i - 1)

\* ndarray.mean(axis=0) of a two-dimensional array
mean_axis0(a) == [j \in 1..Len(a[1]) |-> <<ColumnSum(a, j, Len(a)), Len(a)>>]

\* lines 103-107: the samples one frame contributes
frame_samples(frame) ==
    LET frame_array == to_ndarray(frame)
    IN  mean_axis0(frame_array)

RECURSIVE decode_samples(_)
\* lines 98-107: samples.extend(...) over the frames in order
decode_samples(frames) ==
    IF frames = <<>> THEN <<>>
    ELSE frame_samples(Head(frames)) \o decode_samples(Tail(frames))

\* lines 88-92: the first stream whose type is 'audio' (0: none)
RECURSIVE FirstAudio(_, _)
FirstAudio(streams, i) ==
    IF i > Len(streams) THEN 0
    ELSE IF streams[i].type = "audio" THEN i
    ELSE FirstAudio(streams, i + 1)

----------------------------------------------------------------------------
(* convert_to_wav, 16-bit PCM (lines 114-122) *)

RatAbs(q) == <<IF q[1] < 0 THEN -q[1] ELSE q[1], q[2]>>

RatLess(p, q) == p[1] * q[2] < q[1] * p[2]

RECURSIVE RatMax(_)
\* np.max of a non-empty array
RatMax(a) ==
    IF Len(a) = 1 THEN a[1]
    ELSE LET m == RatMax(Tail(a)) IN IF RatLess(m, a[1]) THEN a[1] ELSE m

\* the integer part of n / d, d > 0 (rounding toward zero)
Trunc(n, d) == IF n >= 0 THEN n \div d ELSE -((-n) \div d)

\* astype(np.int16) of an integer-valued float: the low 16 bits, signed
as_int16(v) == ((v + 32768) % 65536) - 32768

\* np.float32 values are kept as <<sign, mantissa, exponent>>, the value
\* being sign * mantissa * 2^exponent with 2^23 <= mantissa < 2^24, or
\* <<1, 0, 0>> for zero.  Subnormals and overflow are out of reach of the
\* values handled here (a quotient of magnitude at most 1 and at least
\* 2^-30, scaled by 32767).

RECURSIVE f32_grow(_, _, _, _)
\* long division rem / b continued bit by bit until the mantissa has 24 bits
f32_grow(m, rem, b, e) ==
    IF m >= 8388608 THEN <<m, rem, e>>
    ELSE f32_grow(2 * m + (IF 2 * rem >= b THEN 1 ELSE 0), (2 * rem) % b, b, e - 1)

\* round to nearest, ties to even: m with `rest` left over, half a unit of
\* the last place being `half`
f32_round(sign, m, rest, half, e) ==
    LET up == rest > half \/ (rest = half /\ m % 2 = 1)
    IN  IF ~up THEN <<sign, m, e>>
        ELSE IF m + 1 = 16777216 THEN <<sign, 8388608, e + 1>>
        ELSE <<sign, m + 1, e>>

\* the float32 quotient of the integers a and b, 0 <= |a| <= b, b > 0
\* (line 121: samples_array / max_val)
f32_div(a, b) ==
    LET sign == IF a < 0 THEN -1 ELSE 1
        n == IF a < 0 THEN -a ELSE a
        g == f32_grow(n \div b, n % b, b, 0)
    IN  IF n = 0 THEN <<1, 0, 0>>
        ELSE f32_round(sign, g[1], 2 * g[2], b, g[3])

\* a slip: the scale is 32768
f32_times_32768(x) == IF x[2] = 0 THEN x ELSE <<x[1], x[2], x[3] + 15>>

\* a slip: the product is chopped to 24 bits instead of rounded
f32_times_32767_chopped(x) ==
    LET h == x[2] \div 4096
        l == x[2] % 4096
        H == h * 32767 + (l * 32767) \div 4096
    IN  IF x[2] = 0 THEN x
        ELSE IF H >= 67108864 THEN <<x[1], H \div 8, x[3] + 15>>
        ELSE <<x[1], H \div 4, x[3] + 14>>

\* the float32 product of x and 32767 (line 122): the 39-bit product
\* mantissa * 32767 is formed in two halves and rounded to 24 bits
f32_times_32767(x) ==
    LET h == x[2] \div 4096
        l == x[2] % 4096
        H == h * 32767 + (l * 32767) \div 4096
        L == (l * 32767) % 4096
    IN  IF x[2] = 0 THEN x
        ELSE IF H >= 67108864
        THEN f32_round(x[1], H \div 8, (H % 8) * 4096 + L, 16384, x[3] + 15)
        ELSE f32_round(x[1], H \div 4, (H % 4) * 4096 + L, 8192, x[3] + 14)

\* the integer part of a float32 of magnitude below 2^31 (the float to
\* integer conversion of astype drops the fraction)
f32_trunc(x) ==
    IF x[3] >= 0 THEN x[1] * x[2] * 2^x[3]
    ELSE IF x[3] <= -31 THEN 0
    ELSE x[1] * (x[2] \div 2^(-x[3]))

\* a slip: the samples are divided by the peak even when it is zero; 0/0 is
\* nan, converted here to the least int16
to_int16_divides(samples) ==
    LET max_val == RatMax([k \in 1..Len(samples) |-> RatAbs(samples[k])])
    IN  [k \in 1..Len(samples) |->
            IF max_val[1] > 0
            THEN as_int16(f32_trunc(f32_times_32767(
                    f32_div(samples[k][1] * max_val[2], samples[k][2] * max_val[1]))))
            ELSE -32768]

\* lines 116-122.  The decoded samples are exact float32 values n/d; with
\* a peak p/q the quotient is the float32 nearest to (n*q)/(d*p).  Without
\* a peak every sample is zero and is scaled as it is.
to_int16(samples) ==
    LET max_val == RatMax([k \in 1..Len(samples) |-> RatAbs(samples[k])])
    IN  [k \in 1..Len(samples) |->
            IF max_val[1] > 0
            THEN as_int16(f32_trunc(f32_times_32767(
                    f32_div(samples[k][1] * max_val[2], samples[k][2] * max_val[1]))))
            ELSE as_int16(Trunc(samples[k][1] * 32767, samples[k][2]))]

----------------------------------------------------------------------------
(* convert_to_wav *)

\* a slip: the header carries the stream's own rate
convert_to_wav_native(media) ==
    LET audio_stream == FirstAudio(media.streams, 1)
        rate == media.streams[audio_stream].rate
        sample_rate == IF rate # 0 THEN rate ELSE 16000
        samples == decode_samples(media.frames)
        samples_int16 == to_int16(samples)
        data_size == Len(samples_int16) * 2
    IN  IF media.open # "ok" THEN Raise(media.open)
        ELSE IF audio_stream = 0 THEN Raise("No audio stream found")
        ELSE IF media.decode_error THEN Raise("DecodeError")
        ELSE IF samples = <<>> THEN Raise("No audio samples decoded")
        ELSE Ok(RIFF \o pack_I(36 + data_size) \o WAVE \o FMT \o pack_I(16)
                \o pack_H(1) \o pack_H(1) \o pack_I(sample_rate) \o pack_I(sample_rate * 2)
                \o pack_H(2) \o pack_H(16) \o DATA \o pack_I(data_size)
                \o tobytes(samples_int16))

\* a slip: a stream that is not at 16000 Hz is thinned to every other sample
convert_to_wav_resampled(media) ==
    LET audio_stream == FirstAudio(media.streams, 1)
        rate == media.streams[audio_stream].rate
        sample_rate == IF rate # 0 THEN rate ELSE 16000
        samples == decode_samples(media.frames)
        thinned == [k \in 1..((Len(samples) + 1) \div 2) |-> samples[2 * k - 1]]
    IN  IF media.open # "ok" THEN Raise(media.open)
        ELSE IF audio_stream = 0 THEN Raise("No audio stream found")
        ELSE IF media.decode_error THEN Raise("DecodeError")
        ELSE IF samples = <<>> THEN Raise("No audio samples decoded")
        ELSE wav_encode(to_int16(IF sample_rate = 16000 THEN samples ELSE thinned))

\* a slip: no samples are not an error, a WAV without samples is written
convert_to_wav_empty(media) ==
    LET audio_stream == FirstAudio(media.streams, 1)
        samples == decode_samples(media.frames)
    IN  IF media.open # "ok" THEN Raise(media.open)
        ELSE IF audio_stream = 0 THEN Raise("No audio stream found")
        ELSE IF media.decode_error THEN Raise("DecodeError")
        ELSE IF samples = <<>> THEN wav_encode(<<>>)
        ELSE wav_encode(to_int16(samples))

\* a slip: a decoding error ends the loop and what was decoded is kept
convert_to_wav_partial(media) ==
    LET audio_stream == FirstAudio(media.streams, 1)
        samples == decode_samples(media.frames)
    IN  IF media.open # "ok" THEN Raise(media.open)
        ELSE IF audio_stream = 0 THEN Raise("No audio stream found")
        ELSE IF samples = <<>> THEN Raise("No audio samples decoded")
        ELSE wav_encode(to_int16(samples))

\* a raised exception is logged and raised again (lines 148-150)
convert_to_wav(media) ==
    LET audio_stream == FirstAudio(media.streams, 1)
        rate == media.streams[audio_stream].rate
        sample_rate == IF rate # 0 THEN rate ELSE 16000
        samples == decode_samples(media.frames)
    IN  IF media.open # "ok" THEN Raise(media.open)
        ELSE IF audio_stream = 0 THEN Raise("No audio stream found")
        ELSE IF media.decode_error THEN Raise("DecodeError")
        ELSE IF samples = <<>> THEN Raise("No audio samples decoded")
        ELSE wav_encode(to_int16(samples))

----------------------------------------------------------------------------
(* The containers convert_to_wav is tried on: every audio stream of at most *)
(* MaxSamples sample positions, cut into frames in every way.               *)

Amplitudes == {-2, 0, 1, 2}

Rates == {0, 16000, 44100}

\* channel count and sample format of a stream
Layouts == {<<1, "flt">>, <<2, "fltp">>, <<2, "flt">>}

RECURSIVE Compositions(_)
\* the ways to cut n sample positions into frames
Compositions(n) ==
    IF n = 0 THEN {<<>>}
    ELSE UNION {{<<k>> \o c : c \in Compositions(n - k)} : k \in 1..n}

RECURSIVE Before(_, _)
Before(cut, i) == IF i = 1 THEN 0 ELSE cut[i - 1] + Before(cut, i - 1)

\* the frames of a stream whose channels are data, cut as cut says
FramesOf(layout, data, cut) ==
    [i \in 1..Len(cut) |->
        [format |-> layout[2],
         data |-> [c \in 1..layout[1] |-> SubSeq(data[c], Before(cut, i) + 1, Before(cut, i) + cut[i])]]]

Audio(r) == [type |-> "audio", rate |-> r]

Video == [type |-> "video", rate |-> 0]

Media(open, streams, frames, decode_error) ==
    [open |-> open, streams |-> streams, frames |-> frames, decode_error |-> decode_error]

\* what can surround the frames: an audio stream of any rate, alone or after
\* a video stream, decoded to the end or failing after the frames
Decodable(f) ==
    {Media("ok", <<Audio(r)>>, f, FALSE) : r \in Rates}
    \cup {Media("ok", <<Video, Audio(48000)>>, f, e) : e \in BOOLEAN}

\* containers without audio, and buffers PyAV cannot open
Undecodable ==
    {Media("ok", s, <<>>, FALSE) : s \in {<<>>, <<Video>>}}
    \cup {Media(x, <<>>, <<>>, FALSE) : x \in {"ImportError", "InvalidDataError"}}

ConvertInit ==
    /\ \/ \E layout \in Layouts, n \in 0..MaxSamples :
            \E data \in [1..layout[1] -> [1..n -> Amplitudes]], cut \in Compositions(n) :
                input \in Decodable(FramesOf(layout, data, cut))
       \/ input \in Undecodable
    /\ output = <<>>
    /\ returned = FALSE
    /\ Boot

\* convert_to_wav applied to the container
Convert ==
    /\ ~returned
    /\ returned' = TRUE
    /\ output' = convert_to_wav(input)
    /\ UNCHANGED <<input, globals, locals, renderer>>

ConvertNext == Convert

SpecConvert == ConvertInit /\ [][ConvertNext]_vars

----------------------------------------------------------------------------
(* Claims about convert_to_wav (SpecConvert) *)

RECURSIVE Positions(_)
\* the mono samples the frames decode to: the columns of their arrays
Positions(frames) ==
    IF frames = <<>> THEN 0
    ELSE Len(to_ndarray(Head(frames))[1]) + Positions(Tail(frames))

\* C9: a successful conversion yields 44 + 2N bytes: the fixed header (RIFF,
\* WAVE, fmt , 16, PCM 1, 1 channel, 16000 Hz, byte rate 32000, block align 2,
\* 16 bits, data) and then the N samples as little-endian int16 in order,
\* whatever the rate and channel count of the stream
C9_FixedLayout ==
    (returned /\ ~output.raised) =>
        LET b == output.value
            N == Positions(input.frames)
            pcm == to_int16(decode_samples(input.frames))
        IN  /\ Len(b) = 44 + 2 * N
            /\ BytesAt(b, 0, 4) = <<82, 73, 70, 70>>
            /\ BytesAt(b, 8, 4) = <<87, 65, 86, 69>>
            /\ BytesAt(b, 12, 4) = <<102, 109, 116, 32>>
            /\ U32At(b, 16) = 16
            /\ U16At(b, 20) = 1
            /\ U16At(b, 22) = 1
            /\ U32At(b, 24) = 16000
            /\ U32At(b, 28) = 32000
            /\ U16At(b, 32) = 2
            /\ U16At(b, 34) = 16
            /\ BytesAt(b, 36, 4) = <<100, 97, 116, 97>>
            /\ Len(pcm) = N
            /\ \A k \in 1..N : S16At(b, 44 + 2 * (k - 1)) = pcm[k]

C9_Witness ==
    /\ returned /\ ~output.raised
    /\ input.streams = <<Audio(44100)>>
    /\ Len(input.frames) = 2
    /\ Len(input.frames[1].data) = 2
    /\ Len(output.value) = 48
    /\ S16At(output.value, 44) = -32767
    /\ S16At(output.value, 46) = 16383

\* the mono samples a container decodes to, and their peak
Decoded == decode_samples(input.frames)

Peak == RatMax([k \in 1..Len(Decoded) |-> RatAbs(Decoded[k])])

\* the integer nearest to n / d, d > 0, a tie going to the even one
RoundNearest(n, d) ==
    LET f == n \div d
        r == n % d
    IN  IF 2 * r > d \/ (2 * r = d /\ f % 2 = 1) THEN f + 1 ELSE f

Clamp(v) == IF v < -32768 THEN -32768 ELSE IF v > 32767 THEN 32767 ELSE v

\* C11: with a peak above zero, every output sample is round((s / peak) *
\* 32767), rounded to the nearest integer and clamped to the int16 range
C11_RoundsToNearest ==
    (returned /\ ~output.raised /\ Peak[1] > 0) =>
        \A k \in 1..Len(Decoded) :
            S16At(output.value, 44 + 2 * (k - 1)) =
                Clamp(RoundNearest(Decoded[k][1] * Peak[2] * 32767, Decoded[k][2] * Peak[1]))

\* the container opens, has an audio stream and decodes to the end
Decodes == input.open = "ok" /\ FirstAudio(input.streams, 1) # 0 /\ ~input.decode_error

\* C13: N > 0 samples that are all zero convert to a valid WAV of N zero
\* samples: 44 + 2N bytes, chunk sizes 36 + 2N and 2N, every sample 0
C13_SilencePassesThrough ==
    (returned /\ Decodes /\ Decoded # <<>> /\ \A k \in 1..Len(Decoded) : Decoded[k][1] = 0) =>
        /\ ~output.raised
        /\ Len(output.value) = 44 + 2 * Len(Decoded)
        /\ BytesAt(output.value, 0, 4) = <<82, 73, 70, 70>>
        /\ U32At(output.value, 4) = 36 + 2 * Len(Decoded)
        /\ U32At(output.value, 40) = 2 * Len(Decoded)
        /\ \A k \in 1..Len(Decoded) : S16At(output.value, 44 + 2 * (k - 1)) = 0

C13_Witness ==
    /\ returned /\ Decodes
    /\ Len(Decoded) = 2
    /\ Decoded[1][1] = 0 /\ Decoded[2][1] = 0
    /\ ~output.raised
    /\ BytesAt(output.value, 44, 4) = <<0, 0, 0, 0>>

\* one sample per sample position of a frame: the average of its channels
ChannelMeans(frame) ==
    [j \in 1..Len(frame.data[1]) |-> <<ColumnSum(frame.data, j, Len(frame.data)), Len(frame.data)>>]

RECURSIVE Downmixed(_)
\* the channel averages of the frames, in frame order
Downmixed(frames) ==
    IF frames = <<>> THEN <<>>
    ELSE ChannelMeans(Head(frames)) \o Downmixed(Tail(frames))

\* C22: the decoded mono sequence is the concatenation, in frame order, of
\* one sample per sample position of each frame, the average of the frame's
\* channels, and the WAV has as many samples as there are sample positions
C22_MonoDownmix ==
    (returned /\ Decodes) =>
        /\ Decoded = Downmixed(input.frames)
        /\ ~output.raised => Len(output.value) = 44 + 2 * Len(Downmixed(input.frames))

\* the container with another native rate of its audio streams
WithRate(media, rate) ==
    [media EXCEPT !.streams =
        [i \in DOMAIN media.streams |->
            IF media.streams[i].type = "audio" THEN Audio(rate) ELSE media.streams[i]]]

\* C23: whatever the native rate of the stream, the WAV has as many samples
\* as were decoded, its header says 16000 Hz, and the same frames with no
\* rate or with a rate of 48000 give the same bytes (so every two rates do)
C23_NoResampling ==
    (returned /\ ~output.raised) =>
        /\ Len(output.value) = 44 + 2 * Len(Decoded)
        /\ U32At(output.value, 24) = 16000
        /\ \A rate \in {0, 48000} : convert_to_wav(WithRate(input, rate)) = output

C23_Witness ==
    /\ returned /\ ~output.raised
    /\ input.streams = <<Audio(44100)>>
    /\ Len(Decoded) = 2
    /\ Len(output.value) = 48
    /\ U32At(output.value, 24) = 16000

\* the value of a sample after scaling by the peak, before it is stored as
\* int16
Scaled(sample, peak) ==
    f32_trunc(f32_times_32767(f32_div(sample[1] * peak[2], sample[2] * peak[1])))

\* C24: with a peak above zero every scaled sample lies in -32767..32767
\* and is stored as it is (no wrap-around, never -32768), and some stored
\* sample is 32767 or -32767
C24_FullScaleRange ==
    (returned /\ ~output.raised) =>
        LET samples == Decoded
            max_val == RatMax([k \in 1..Len(samples) |-> RatAbs(samples[k])])
            scaled == [k \in 1..Len(samples) |-> Scaled(samples[k], max_val)]
        IN  max_val[1] > 0 =>
                /\ \A k \in 1..Len(samples) :
                        /\ scaled[k] >= -32767 /\ scaled[k] <= 32767
                        /\ S16At(output.value, 44 + 2 * (k - 1)) = scaled[k]
                /\ \E k \in 1..Len(samples) :
                        S16At(output.value, 44 + 2 * (k - 1)) \in {-32767, 32767}

C24_Witness ==
    /\ returned /\ ~output.raised
    /\ Len(Decoded) = 2
    /\ Peak = <<2, 1>>
    /\ S16At(output.value, 44) = 16383
    /\ S16At(output.value, 46) = -32767

----------------------------------------------------------------------------
(* Quantizing a signal that is already at full scale: int16 samples whose   *)
(* peak is 32767, which np.float32 holds exactly.                           *)

Int16Peak == 32767

\* every sample value next to a peak, before it and after it
QuantInit ==
    /\ \E q \in -Int16Peak..Int16Peak : input \in {<<q, Int16Peak>>, <<-Int16Peak, q>>}
    /\ output = <<>>
    /\ returned = FALSE
    /\ Boot

\* lines 116-122 applied to the samples
Quantize ==
    /\ ~returned
    /\ returned' = TRUE
    /\ output' = to_int16([k \in 1..Len(input) |-> <<input[k], 1>>])
    /\ UNCHANGED <<input, globals, locals, renderer>>

QuantNext == Quantize

SpecQuant == QuantInit /\ [][QuantNext]_vars

\* C20: a mono signal whose peak is already full scale is left as it is:
\* normalizing and quantizing q/32767 gives q back, for every sample q
C20_Idempotent ==
    returned => output = input

C20_Witness ==
    /\ returned
    /\ input = <<12345, 32767>>
    /\ output = <<12345, 32767>>

----------------------------------------------------------------------------
(* Results and responses *)

\* a dict returned by the transcription function
Returned(success, text, error) ==
    [kind |-> "returned", success |-> success, text |-> text, error |-> error]

\* an exception that leaves the transcription function
Raised(e) == [kind |-> "raised", success |-> FALSE, text |-> "", error |-> <<e>>]

\* a response body with an "error" key only
ErrorOnly(e) == [kind |-> "error_only", success |-> FALSE, text |-> "", error |-> <<e>>]

Response(status, body) == [status |-> status, body |-> body]

\* what the engine may say, and how it may fail
EngineTexts == {"", "hello world"}

EngineErrors == {"RuntimeError"}

\* the directory with one more file, and with one file less
WithFile(fs, name, data) == [n \in DOMAIN fs \cup {name} |-> IF n = name THEN data ELSE fs[n]]

\* the name of a new temporary file: any unused name will do, and the
\* least is taken (none when every name is in use)
FreshName(fs) ==
    LET unused == TempNames \ DOMAIN fs
    IN  {n \in unused : \A m \in unused : n <= m}

WithoutFile(fs, name) == [n \in DOMAIN fs \ {name} |-> fs[n]]

----------------------------------------------------------------------------
(* Voice app: load_model (lines 41-76) *)

\* how a call of the loader can end
LoadOutcomes ==
    IF whisper_model # 0 THEN {"cached"}
    ELSE {"loaded", "ImportError", "Error"}

\* a slip: the instance is rebuilt on every call
load_model_again(how) ==
    CASE how = "cached" -> /\ whisper_model' = constructed + 1
                           /\ constructed' = constructed + 1
      [] how = "loaded" -> /\ whisper_model' = constructed + 1
                           /\ constructed' = constructed + 1
      [] how = "ImportError" -> UNCHANGED <<whisper_model, constructed>>
      [] how = "Error" -> UNCHANGED <<whisper_model, constructed>>

\* the call's effect on the globals:
\* cached: the instance exists and is returned (lines 45-46);
\* loaded: WhisperModel(...) is built and stored (lines 65-72);
\* ImportError: faster_whisper is missing, sys.exit(1) (lines 74-76);
\* Error: WhisperModel(...) raises something else, which propagates (no
\*   instance is made)
load_model(how) ==
    CASE how = "cached" -> UNCHANGED <<whisper_model, constructed>>
      [] how = "loaded" -> /\ whisper_model' = constructed + 1
                           /\ constructed' = constructed + 1
      [] how = "ImportError" -> UNCHANGED <<whisper_model, constructed>>
      [] how = "Error" -> UNCHANGED <<whisper_model, constructed>>

----------------------------------------------------------------------------
(* Voice app: the requests tried *)

\* a well-formed WAV file, and the same file cut inside its data chunk
WavBlob == RIFF \o <<40, 0, 0, 0>> \o WAVE \o FMT \o <<16, 0, 0, 0, 1, 0, 1, 0>>
           \o <<128, 62, 0, 0, 0, 125, 0, 0, 2, 0, 16, 0>> \o DATA \o <<4, 0, 0, 0>>
           \o <<1, 0, 255, 255>>

TruncatedWavBlob == Take(WavBlob, 45)

OggBlob == OGGS \o <<0, 2>>

Mp3Blob == ID3 \o <<3, 0>>

UnknownBlob == <<0, 0, 0, 0, 32>>

RequestBlobs == {WavBlob, TruncatedWavBlob, OggBlob, Mp3Blob, UnknownBlob}

StereoFrames == FramesOf(<<2, "fltp">>, <<<<2, -2>>, <<0, 0>>>>, <<1, 1>>)

SilentFrames == FramesOf(<<1, "flt">>, <<<<0, 0>>>>, <<2>>)

RequestContainers ==
    {Media("ok", <<Audio(44100)>>, StereoFrames, FALSE),
     Media("ok", <<Audio(16000)>>, SilentFrames, FALSE),
     Media("ok", <<Audio(16000)>>, <<>>, FALSE),
     Media("ok", <<Video, Audio(48000)>>, StereoFrames, TRUE),
     Media("ok", <<Video>>, <<>>, FALSE),
     Media("InvalidDataError", <<>>, <<>>, FALSE),
     Media("ImportError", <<>>, <<>>, FALSE)}

----------------------------------------------------------------------------
(* Voice app: main, do_POST and transcribe_audio.  HTTPServer serves one    *)
(* request at a time, on worker 1.                                          *)

MainThread == 1

\* main (lines 331-347): the model is loaded before the server listens
Main ==
    /\ server = "starting"
    /\ \E how \in LoadOutcomes :
        /\ load_model(how)
        /\ server' = IF how \in {"cached", "loaded"} THEN "serving" ELSE "exited"
    /\ UNCHANGED <<files, locals, harness, renderer>>

\* do_POST (lines 271-314): a request arrives; an empty body is refused
Receive(r) ==
    /\ server = "serving"
    /\ pc[r] \in {"idle", "done"}
    /\ \E b \in RequestBlobs \cup {<<>>}, c \in RequestContainers :
        /\ blob' = [blob EXCEPT ![r] = b]
        /\ container' = [container EXCEPT ![r] = c]
        /\ audio_data' = [audio_data EXCEPT ![r] = b]
        /\ pc' = [pc EXCEPT ![r] = IF b = <<>> THEN "done" ELSE "load"]
        /\ response' = [response EXCEPT ![r] =
                IF b = <<>> THEN Response(400, ErrorOnly("No audio data")) ELSE NoResponse]
    /\ detected_format' = [detected_format EXCEPT ![r] = "None"]
    /\ model' = [model EXCEPT ![r] = 0]
    /\ temp_path' = [temp_path EXCEPT ![r] = 0]
    /\ created' = [created EXCEPT ![r] = {}]
    /\ heard' = [heard EXCEPT ![r] = <<>>]
    /\ unlink_failed' = [unlink_failed EXCEPT ![r] = FALSE]
    /\ result' = [result EXCEPT ![r] = NoResult]
    /\ UNCHANGED <<globals, harness, renderer>>

\* transcribe_audio, line 171: model = load_model()
T_Load(r) ==
    /\ pc[r] = "load"
    /\ \E how \in LoadOutcomes :
        /\ load_model(how)
        /\ IF how \in {"cached", "loaded"}
           THEN /\ model' = [model EXCEPT ![r] = whisper_model']
                /\ pc' = [pc EXCEPT ![r] = "detect"]
                /\ UNCHANGED <<result, server>>
           ELSE /\ result' = [result EXCEPT ![r] =
                        Raised(IF how = "ImportError" THEN "SystemExit" ELSE how)]
                /\ pc' = [pc EXCEPT ![r] = "respond"]
                /\ UNCHANGED <<model, server>>
    /\ UNCHANGED <<files, blob, container, audio_data, detected_format, temp_path,
                   created, heard, unlink_failed, response, harness, renderer>>

\* a slip: every blob is converted, a WAV too
T_Detect_convert_all(r) ==
    /\ pc[r] = "detect"
    /\ detected_format' = [detected_format EXCEPT ![r] = detect_audio_format(audio_data[r])]
    /\ pc' = [pc EXCEPT ![r] = "convert"]
    /\ UNCHANGED <<globals, blob, container, audio_data, model, temp_path, created,
                   heard, unlink_failed, result, response, harness, renderer>>

\* lines 173-178: the format is detected; a WAV is not converted
T_Detect(r) ==
    /\ pc[r] = "detect"
    /\ detected_format' = [detected_format EXCEPT ![r] = detect_audio_format(audio_data[r])]
    /\ pc' = [pc EXCEPT ![r] = IF detected_format'[r] # "wav" THEN "convert" ELSE "tempfile"]
    /\ UNCHANGED <<globals, blob, container, audio_data, model, temp_path, created,
                   heard, unlink_failed, result, response, harness, renderer>>

\* a slip: a failed conversion is not caught
T_Convert_uncaught(r) ==
    /\ pc[r] = "convert"
    /\ LET wav == convert_to_wav(container[r])
       IN  IF wav.raised
           THEN /\ result' = [result EXCEPT ![r] = Raised(wav.error)]
                /\ pc' = [pc EXCEPT ![r] = "respond"]
                /\ UNCHANGED audio_data
           ELSE /\ audio_data' = [audio_data EXCEPT ![r] = wav.value]
                /\ pc' = [pc EXCEPT ![r] = "tempfile"]
                /\ UNCHANGED result
    /\ UNCHANGED <<globals, blob, container, detected_format, model, temp_path, created,
                   heard, unlink_failed, response, harness, renderer>>

\* a slip: after a failed conversion the blob is transcribed as it is
T_Convert_fallthrough(r) ==
    /\ pc[r] = "convert"
    /\ LET wav == convert_to_wav(container[r])
       IN  IF wav.raised
           THEN /\ pc' = [pc EXCEPT ![r] = "tempfile"]
                /\ UNCHANGED <<audio_data, result>>
           ELSE /\ audio_data' = [audio_data EXCEPT ![r] = wav.value]
                /\ pc' = [pc EXCEPT ![r] = "tempfile"]
                /\ UNCHANGED result
    /\ UNCHANGED <<globals, blob, container, detected_format, model, temp_path, created,
                   heard, unlink_failed, response, harness, renderer>>

\* lines 179-189: the conversion; its failure is the call's result
T_Convert(r) ==
    /\ pc[r] = "convert"
    /\ LET wav == convert_to_wav(container[r])
       IN  IF wav.raised
           THEN /\ result' = [result EXCEPT ![r] =
                        Returned(FALSE, "", <<"Audio conversion failed: ", wav.error>>)]
                /\ pc' = [pc EXCEPT ![r] = "respond"]
                /\ UNCHANGED audio_data
           ELSE /\ audio_data' = [audio_data EXCEPT ![r] = wav.value]
                /\ pc' = [pc EXCEPT ![r] = "tempfile"]
                /\ UNCHANGED result
    /\ UNCHANGED <<globals, blob, container, detected_format, model, temp_path, created,
                   heard, unlink_failed, response, harness, renderer>>

\* a slip: one fixed path, opened for appending
T_TempFile_fixed(r) ==
    /\ pc[r] = "tempfile"
    /\ \/ /\ result' = [result EXCEPT ![r] = Raised("OSError")]
          /\ pc' = [pc EXCEPT ![r] = "respond"]
          /\ UNCHANGED <<files, created, temp_path>>
       \/ /\ files' = WithFile(files, 1, IF 1 \in DOMAIN files THEN files[1] ELSE <<>>)
          /\ created' = [created EXCEPT ![r] = @ \cup {1}]
          /\ result' = [result EXCEPT ![r] = Raised("OSError")]
          /\ pc' = [pc EXCEPT ![r] = "respond"]
          /\ UNCHANGED temp_path
       \/ /\ files' = WithFile(files, 1, (IF 1 \in DOMAIN files THEN files[1] ELSE <<>>)
                                          \o audio_data[r])
          /\ created' = [created EXCEPT ![r] = @ \cup {1}]
          /\ temp_path' = [temp_path EXCEPT ![r] = 1]
          /\ pc' = [pc EXCEPT ![r] = "transcribe"]
          /\ UNCHANGED result
    /\ UNCHANGED <<server, whisper_model, constructed, blob, container, audio_data,
                   detected_format, model, heard, unlink_failed, response, harness, renderer>>

\* lines 191-194: NamedTemporaryFile(delete=False) and f.write.  The file
\* cannot be created (OSError), or is created under an unused name and the
\* write fails (the file is closed and stays, nothing of it is modelled as
\* written), or the write succeeds and temp_path is set.
T_TempFile(r) ==
    /\ pc[r] = "tempfile"
    /\ \/ /\ result' = [result EXCEPT ![r] = Raised("OSError")]
          /\ pc' = [pc EXCEPT ![r] = "respond"]
          /\ UNCHANGED <<files, created, temp_path>>
       \/ \E name \in FreshName(files) :
            /\ files' = WithFile(files, name, <<>>)
            /\ created' = [created EXCEPT ![r] = @ \cup {name}]
            /\ result' = [result EXCEPT ![r] = Raised("OSError")]
            /\ pc' = [pc EXCEPT ![r] = "respond"]
            /\ UNCHANGED temp_path
       \/ \E name \in FreshName(files) :
            /\ files' = WithFile(files, name, audio_data[r])
            /\ created' = [created EXCEPT ![r] = @ \cup {name}]
            /\ temp_path' = [temp_path EXCEPT ![r] = name]
            /\ pc' = [pc EXCEPT ![r] = "transcribe"]
            /\ UNCHANGED result
    /\ UNCHANGED <<server, whisper_model, constructed, blob, container, audio_data,
                   detected_format, model, heard, unlink_failed, response, harness, renderer>>

\* lines 196-228: the engine reads the file; its text, or its exception,
\* becomes the value to return
T_Transcribe(r) ==
    /\ pc[r] = "transcribe"
    /\ heard' = [heard EXCEPT ![r] = Append(@, files[temp_path[r]])]
    /\ \/ \E text \in EngineTexts :
            result' = [result EXCEPT ![r] = Returned(TRUE, text, <<>>)]
       \/ \E e \in EngineErrors :
            result' = [result EXCEPT ![r] = Returned(FALSE, "", <<e>>)]
    /\ pc' = [pc EXCEPT ![r] = "finally"]
    /\ UNCHANGED <<globals, blob, container, audio_data, detected_format, model,
                   temp_path, created, unlink_failed, response, harness, renderer>>

\* lines 229-234: os.unlink(temp_path); a failure is swallowed
T_Finally(r) ==
    /\ pc[r] = "finally"
    /\ \/ /\ files' = WithoutFile(files, temp_path[r])
          /\ UNCHANGED unlink_failed
       \/ /\ unlink_failed' = [unlink_failed EXCEPT ![r] = TRUE]
          /\ UNCHANGED files
    /\ pc' = [pc EXCEPT ![r] = "respond"]
    /\ UNCHANGED <<server, whisper_model, constructed, blob, container, audio_data,
                   detected_format, model, temp_path, created, heard, result, response,
                   harness, renderer>>

\* do_POST, lines 316-326: the result is sent with 200 or 500; an exception
\* is sent as {"error": ...} with 500; SystemExit ends the server
T_Respond(r) ==
    /\ pc[r] = "respond"
    /\ pc' = [pc EXCEPT ![r] = "done"]
    /\ IF result[r].kind = "returned"
       THEN /\ response' = [response EXCEPT ![r] =
                    Response(IF result[r].success THEN 200 ELSE 500, result[r])]
            /\ UNCHANGED server
       ELSE IF result[r].error = <<"SystemExit">>
       THEN /\ server' = "exited"
            /\ UNCHANGED response
       ELSE /\ response' = [response EXCEPT ![r] = Response(500, ErrorOnly(result[r].error[1]))]
            /\ UNCHANGED server
    /\ UNCHANGED <<whisper_model, constructed, files, blob, container, audio_data,
                   detected_format, model, temp_path, created, heard, unlink_failed,
                   result, harness, renderer>>

Init == Boot /\ NoCall

Next ==
    \/ Main
    \/ Receive(MainThread)
    \/ T_Load(MainThread)
    \/ T_Detect(MainThread)
    \/ T_Convert(MainThread)
    \/ T_TempFile(MainThread)
    \/ T_Transcribe(MainThread)
    \/ T_Finally(MainThread)
    \/ T_Respond(MainThread)

Spec == Init /\ [][Next]_vars

----------------------------------------------------------------------------
(* Claims about transcribe_audio (Spec) *)

\* the transcription function has been called and has been left
Left(r) == pc[r] \in {"respond", "done"} /\ result[r].kind # "none"

\* C4: however the transcription function is left, it is by returning a
\* result that carries a success flag, never by an exception
C4_AlwaysStructured ==
    \A r \in Workers : Left(r) => result[r].kind = "returned"

\* C5: once the request has returned, no temporary file it created exists
\* (unless os.unlink itself failed)
C5_TempFilesDeleted ==
    \A r \in Workers :
        (Left(r) /\ ~unlink_failed[r]) => created[r] \cap DOMAIN files = {}

\* C7: when the conversion of a non-WAV blob fails, transcribe_audio returns
\* success = false, a non-empty error message and text = ""
C7_ConversionFailureReturned ==
    \A r \in Workers :
        (Left(r) /\ model[r] # 0 /\ detected_format[r] # "wav"
                 /\ convert_to_wav(container[r]).raised) =>
            /\ result[r].kind = "returned"
            /\ result[r].success = FALSE
            /\ result[r].text = ""
            /\ \E i \in 1..Len(result[r].error) : result[r].error[i] # ""

C7_Witness ==
    /\ pc[MainThread] = "done"
    /\ detected_format[MainThread] = "ogg"
    /\ container[MainThread].decode_error
    /\ container[MainThread].frames # <<>>
    /\ result[MainThread] = Returned(FALSE, "", <<"Audio conversion failed: ", "DecodeError">>)
    /\ response[MainThread].status = 500

\* the request's blob was not a WAV and its conversion has been tried
Converted(r) ==
    /\ pc[r] \in {"tempfile", "transcribe", "finally", "respond", "done"}
    /\ model[r] # 0
    /\ detected_format[r] # "wav"

\* the request ended at the conversion: success = false is what it returns,
\* and nothing was written for it or given to the engine
EndedAtConversion(r) ==
    /\ pc[r] \in {"respond", "done"}
    /\ result[r].kind = "returned"
    /\ result[r].success = FALSE
    /\ created[r] = {}
    /\ heard[r] = <<>>
    /\ audio_data[r] = blob[r]

\* C12: a container whose audio stream decodes to no samples makes the
\* conversion fail; no WAV is written or given to the engine, and the
\* request's result is success = false
C12_EmptyAudioFails ==
    \A r \in Workers :
        (Converted(r) /\ container[r].open = "ok"
                      /\ FirstAudio(container[r].streams, 1) # 0
                      /\ ~container[r].decode_error
                      /\ decode_samples(container[r].frames) = <<>>) =>
            /\ convert_to_wav(container[r]).raised
            /\ EndedAtConversion(r)

C12_Witness ==
    /\ pc[MainThread] = "done"
    /\ detected_format[MainThread] = "mp3"
    /\ container[MainThread] = Media("ok", <<Audio(16000)>>, <<>>, FALSE)
    /\ result[MainThread] =
            Returned(FALSE, "", <<"Audio conversion failed: ", "No audio samples decoded">>)
    /\ heard[MainThread] = <<>>
    /\ files = <<>>

\* C14: a blob of unknown format is never converted: its request ends at the
\* conversion with success = false, no WAV written, the engine not invoked
C14_UnknownFails ==
    \A r \in Workers :
        (Converted(r) /\ detected_format[r] = "None") => EndedAtConversion(r)

\* C15: a container without an audio stream, or one whose decoding fails
\* after frames were decoded, fails as a whole: nothing is encoded, written
\* or given to the engine, and the request's result is success = false
C15_NoPartialSuccess ==
    \A r \in Workers :
        (Converted(r) /\ container[r].open = "ok"
                      /\ (FirstAudio(container[r].streams, 1) = 0 \/ container[r].decode_error)) =>
            /\ convert_to_wav(container[r]).raised
            /\ EndedAtConversion(r)

C15_Witness ==
    /\ pc[MainThread] = "done"
    /\ detected_format[MainThread] = "None"
    /\ container[MainThread] = Media("ok", <<Video, Audio(48000)>>, StereoFrames, TRUE)
    /\ decode_samples(container[MainThread].frames) # <<>>
    /\ EndedAtConversion(MainThread)
    /\ response[MainThread].status = 500

\* C17: a blob that classifies as WAV is never converted, and the bytes
\* written to the temporary file and read by the engine are the blob's
C17_WavPassesThrough ==
    \A r \in Workers :
        detected_format[r] = "wav" =>
            /\ pc[r] # "convert"
            /\ audio_data[r] = blob[r]
            /\ pc[r] \in {"transcribe", "finally"} /\ temp_path[r] \in DOMAIN files
                    => files[temp_path[r]] = blob[r]
            /\ heard[r] # <<>> => heard[r] = <<blob[r]>>

C17_Witness ==
    /\ pc[MainThread] = "done"
    /\ blob[MainThread] = WavBlob
    /\ detected_format[MainThread] = "wav"
    /\ heard[MainThread] = <<WavBlob>>
    /\ result[MainThread] = Returned(TRUE, "hello world", <<>>)

\* C18: a WAV with the RIFF magic and a truncated data chunk never gives a
\* successful result: its request ends with success = false
C18_MalformedWavFails ==
    \A r \in Workers :
        (Left(r) /\ blob[r] = TruncatedWavBlob) =>
            ~(result[r].kind = "returned" /\ result[r].success)

\* the bytes the engine is to read for the request: the blob itself when it
\* is a WAV, else what the conversion of its container gives
Own(r) ==
    IF detect_audio_format(blob[r]) = "wav" THEN blob[r]
    ELSE convert_to_wav(container[r]).value

StepOrder ==
    {<<"idle", "load">>, <<"idle", "done">>, <<"done", "load">>,
     <<"load", "detect">>, <<"load", "respond">>,
     <<"detect", "convert">>, <<"detect", "tempfile">>,
     <<"convert", "tempfile">>, <<"convert", "respond">>,
     <<"tempfile", "transcribe">>, <<"tempfile", "respond">>,
     <<"transcribe", "finally">>, <<"finally", "respond">>, <<"respond", "done">>}

\* C21: a request goes through classify, convert (only if not a WAV), write
\* the temporary file, invoke the engine, delete the file, in this order;
\* the engine is invoked at most once, while the completely written file
\* exists; a failed conversion ends the request with no file and no engine
\* call
C21_StepOrder ==
    [][\A r \in Workers :
        /\ pc'[r] # pc[r] => <<pc[r], pc'[r]>> \in StepOrder
        /\ (pc[r] = "detect" /\ pc'[r] = "convert") => detected_format'[r] # "wav"
        /\ (pc[r] = "detect" /\ pc'[r] = "tempfile") => detected_format'[r] = "wav"
        /\ Len(heard'[r]) > Len(heard[r]) =>
                /\ heard[r] = <<>>
                /\ pc[r] = "transcribe" /\ pc'[r] = "finally"
                /\ temp_path[r] \in DOMAIN files
                /\ files[temp_path[r]] = audio_data[r]
                /\ heard'[r] = <<audio_data[r]>>
        /\ (pc[r] = "finally" /\ pc'[r] # "finally") =>
                (temp_path[r] \notin DOMAIN files' \/ unlink_failed'[r])
        /\ (pc[r] = "convert" /\ convert_to_wav(container[r]).raised) =>
                /\ pc'[r] = "respond"
                /\ created'[r] = {} /\ heard'[r] = <<>>
                /\ files' = files]_vars

\* a converted blob has been written, heard once and deleted
C21_Witness ==
    /\ pc[MainThread] = "done"
    /\ detected_format[MainThread] = "mp3"
    /\ Len(heard[MainThread]) = 1
    /\ heard[MainThread][1] = convert_to_wav(container[MainThread]).value
    /\ created[MainThread] # {}
    /\ created[MainThread] \cap DOMAIN files = {}

----------------------------------------------------------------------------
(* UI server: main, get_whisper_model and the /transcribe handler.  Flask   *)
(* runs with threaded=True: every worker handles a request of its own, and  *)
(* the workers' steps interleave.                                           *)

\* len(audio_data) < 100 is refused
MinAudioBytes == 100

Zeros(n) == [i \in 1..n |-> 0]

\* request bodies: none, one byte too short, just long enough
UiBodies == {<<>>, RIFF \o Zeros(MinAudioBytes - 5), RIFF \o Zeros(MinAudioBytes - 4)}

\* how whisper.load_model can end: an instance, `import whisper` failing,
\* or the loader raising
UiLoadOutcomes == {"loaded", "ImportError", "Error"}

\* main (lines 198-226): with --preload the model is loaded before app.run
U_Main ==
    /\ server = "starting"
    /\ \E preload \in BOOLEAN :
        IF preload
        THEN \E how \in UiLoadOutcomes :
                IF how = "loaded"
                THEN /\ whisper_model' = constructed + 1
                     /\ constructed' = constructed + 1
                     /\ server' = "serving"
                ELSE /\ server' = "exited"
                     /\ UNCHANGED <<whisper_model, constructed>>
        ELSE /\ server' = "serving"
             /\ UNCHANGED <<whisper_model, constructed>>
    /\ UNCHANGED <<files, locals, harness, renderer>>

\* lines 102-130: the body is read from the form's file or the raw data;
\* no data, and less than MinAudioBytes of it, are answered 400
U_Receive(r) ==
    /\ server = "serving"
    /\ pc[r] \in {"idle", "done"}
    /\ \E b \in UiBodies, via \in {"file", "data"} :
        /\ audio_data' = [audio_data EXCEPT ![r] = IF Len(b) < MinAudioBytes THEN <<>> ELSE b]
        /\ IF b = <<>> /\ via = "data"
           THEN /\ result' = [result EXCEPT ![r] =
                        Returned(FALSE, "", <<"No audio data provided">>)]
                /\ response' = [response EXCEPT ![r] = Response(400, result'[r])]
                /\ pc' = [pc EXCEPT ![r] = "done"]
           ELSE IF Len(b) < MinAudioBytes
           THEN /\ result' = [result EXCEPT ![r] =
                        Returned(FALSE, "", <<"Audio data too small">>)]
                /\ response' = [response EXCEPT ![r] = Response(400, result'[r])]
                /\ pc' = [pc EXCEPT ![r] = "done"]
           ELSE /\ result' = [result EXCEPT ![r] = NoResult]
                /\ response' = [response EXCEPT ![r] = NoResponse]
                /\ pc' = [pc EXCEPT ![r] = "tempfile"]
    /\ model' = [model EXCEPT ![r] = 0]
    /\ temp_path' = [temp_path EXCEPT ![r] = 0]
    /\ created' = [created EXCEPT ![r] = {}]
    /\ heard' = [heard EXCEPT ![r] = <<>>]
    /\ unlink_failed' = [unlink_failed EXCEPT ![r] = FALSE]
    /\ UNCHANGED <<globals, blob, container, detected_format, harness, renderer>>

\* lines 133-135 and 174-179: the temporary file.  It cannot be created, or
\* it is created, temp_path is set and the write fails (the file stays), or
\* the write succeeds.  An exception here goes to the outer handler, and the
\* handler's local variables end with it.
U_TempFile(r) ==
    /\ pc[r] = "tempfile"
    /\ \/ /\ result' = [result EXCEPT ![r] = Returned(FALSE, "", <<"OSError">>)]
          /\ response' = [response EXCEPT ![r] = Response(500, result'[r])]
          /\ pc' = [pc EXCEPT ![r] = "done"]
          /\ audio_data' = [audio_data EXCEPT ![r] = <<>>]
          /\ UNCHANGED <<files, created, temp_path>>
       \/ \E name \in FreshName(files) :
            /\ files' = WithFile(files, name, <<>>)
            /\ created' = [created EXCEPT ![r] = @ \cup {name}]
            /\ result' = [result EXCEPT ![r] = Returned(FALSE, "", <<"OSError">>)]
            /\ response' = [response EXCEPT ![r] = Response(500, result'[r])]
            /\ pc' = [pc EXCEPT ![r] = "done"]
            /\ audio_data' = [audio_data EXCEPT ![r] = <<>>]
            /\ UNCHANGED temp_path
       \/ \E name \in FreshName(files) :
            /\ files' = WithFile(files, name, audio_data[r])
            /\ created' = [created EXCEPT ![r] = @ \cup {name}]
            /\ temp_path' = [temp_path EXCEPT ![r] = name]
            /\ pc' = [pc EXCEPT ![r] = "getmodel"]
            /\ UNCHANGED <<result, response, audio_data>>
    /\ UNCHANGED <<server, whisper_model, constructed, blob, container,
                   detected_format, model, heard, unlink_failed, harness, renderer>>

\* get_whisper_model, line 57: if _whisper_model is None
U_GetModel(r) ==
    /\ pc[r] = "getmodel"
    /\ pc' = [pc EXCEPT ![r] = IF whisper_model = 0 THEN "load" ELSE "return"]
    /\ UNCHANGED <<globals, blob, container, audio_data, detected_format, model,
                   temp_path, created, heard, unlink_failed, result, response, harness, renderer>>

\* lines 59-60: import whisper; whisper.load_model(_model_name).  The new
\* instance is held in model until it is stored; an exception leaves
\* through the finally clause.
U_Load(r) ==
    /\ pc[r] = "load"
    /\ \E how \in UiLoadOutcomes :
        IF how = "loaded"
        THEN /\ constructed' = constructed + 1
             /\ model' = [model EXCEPT ![r] = constructed + 1]
             /\ pc' = [pc EXCEPT ![r] = "store"]
             /\ UNCHANGED result
        ELSE /\ result' = [result EXCEPT ![r] = Raised(how)]
             /\ pc' = [pc EXCEPT ![r] = "finally"]
             /\ UNCHANGED <<constructed, model>>
    /\ UNCHANGED <<server, whisper_model, files, blob, container, audio_data,
                   detected_format, temp_path, created, heard, unlink_failed, response,
                   harness, renderer>>

\* line 60: _whisper_model = <the new instance>
U_Store(r) ==
    /\ pc[r] = "store"
    /\ whisper_model' = model[r]
    /\ pc' = [pc EXCEPT ![r] = "return"]
    /\ UNCHANGED <<server, constructed, files, blob, container, audio_data,
                   detected_format, model, temp_path, created, heard, unlink_failed,
                   result, response, harness, renderer>>

\* lines 63 and 139: return _whisper_model; model = ...
U_Return(r) ==
    /\ pc[r] = "return"
    /\ model' = [model EXCEPT ![r] = whisper_model]
    /\ pc' = [pc EXCEPT ![r] = "transcribe"]
    /\ UNCHANGED <<globals, blob, container, audio_data, detected_format, temp_path,
                   created, heard, unlink_failed, result, response, harness, renderer>>

\* lines 141-167: the engine reads the file; its text, or its exception,
\* is what leaves the try block
U_Transcribe(r) ==
    /\ pc[r] = "transcribe"
    /\ heard' = [heard EXCEPT ![r] = Append(@, files[temp_path[r]])]
    /\ \/ \E text \in EngineTexts :
            result' = [result EXCEPT ![r] = Returned(TRUE, text, <<>>)]
       \/ \E e \in EngineErrors :
            result' = [result EXCEPT ![r] = Raised(e)]
    /\ pc' = [pc EXCEPT ![r] = "finally"]
    /\ UNCHANGED <<globals, blob, container, audio_data, detected_format, model,
                   temp_path, created, unlink_failed, response, harness, renderer>>

\* what the handler answers when `leaving` leaves the try block: a returned
\* value as it is, an exception as success = false (lines 174-179)
Handled(leaving) ==
    IF leaving.kind = "raised" THEN Returned(FALSE, "", leaving.error) ELSE leaving

\* lines 169-179: the file is unlinked if it exists; an exception of
\* os.unlink replaces whatever was leaving the try block.  The handler
\* returns, and its local variables end with it.
U_Finally(r) ==
    /\ pc[r] = "finally"
    /\ \/ /\ files' = WithoutFile(files, temp_path[r])
          /\ result' = [result EXCEPT ![r] = Handled(@)]
          /\ UNCHANGED unlink_failed
       \/ /\ temp_path[r] \in DOMAIN files
          /\ unlink_failed' = [unlink_failed EXCEPT ![r] = TRUE]
          /\ result' = [result EXCEPT ![r] = Handled(Raised("OSError"))]
          /\ UNCHANGED files
    /\ response' = [response EXCEPT ![r] =
            Response(IF result'[r].success THEN 200 ELSE 500, result'[r])]
    /\ pc' = [pc EXCEPT ![r] = "done"]
    /\ audio_data' = [audio_data EXCEPT ![r] = <<>>]
    /\ model' = [model EXCEPT ![r] = 0]
    /\ temp_path' = [temp_path EXCEPT ![r] = 0]
    /\ UNCHANGED <<server, whisper_model, constructed, blob, container,
                   detected_format, created, heard, harness, renderer>>

UiNext ==
    \/ U_Main
    \/ \E r \in Workers :
        \/ U_Receive(r)
        \/ U_TempFile(r)
        \/ U_GetModel(r)
        \/ U_Load(r)
        \/ U_Store(r)
        \/ U_Return(r)
        \/ U_Transcribe(r)
        \/ U_Finally(r)

SpecUI == Init /\ [][UiNext]_vars

----------------------------------------------------------------------------
(* Claims about the model instance (SpecUI) *)

\* C6: the model is constructed at most once, and every request that has
\* obtained the model holds the same instance
C6_SingleInitialization ==
    /\ constructed <= 1
    /\ \A r, q \in Workers :
        (pc[r] \in {"transcribe", "finally"} /\ pc[q] \in {"transcribe", "finally"}
            /\ model[r] # 0 /\ model[q] # 0) => model[r] = model[q]

----------------------------------------------------------------------------
(* Claims about the clean-up (SpecUI) *)

\* C16: a failure to delete the temporary file does not change the outcome:
\* what the engine's call computed before the clean-up is what the request
\* answers after it
C16_CleanupNotEscalated ==
    [][\A r \in Workers :
        (pc[r] = "finally" /\ pc'[r] # "finally" /\ result[r].kind = "returned")
            => result'[r] = result[r]]_vars

----------------------------------------------------------------------------
(* Stream renderer (src/bin/stream_renderer.py).  A text is a sequence of   *)
(* letters; stdout is the sequence of pieces printed: letters, "\n" before  *)
(* a result, "[Session]" for the banner and, for a tool line, a piece that  *)
(* names the id of the block it was printed for.                            *)

\* longest text of a block or of a result
MaxText == 2

\* most pieces followed on stdout
MaxPrinted == 4

Letters == {"a", "b"}

Texts == UNION {[1..n -> Letters] : n \in 0..MaxText}

\* block.get("id", ""): a missing id reads as the empty one
ToolIds == {"", "t1", "t2"}

ToolLine(id) == IF id = "t1" THEN "[t1]" ELSE IF id = "t2" THEN "[t2]" ELSE "[]"

\* content blocks: text, tool_use (its input a JSON object or null) and
\* any other type
TextBlock(text) == [type |-> "text", text |-> text, id |-> "", name |-> "", input |-> ""]

ToolUse(id, name, inp) == [type |-> "tool_use", text |-> <<>>, id |-> id, name |-> name, input |-> inp]

OtherBlock == [type |-> "thinking", text |-> <<>>, id |-> "", name |-> "", input |-> ""]

Blocks ==
    {TextBlock(t) : t \in Texts}
    \cup {ToolUse(id, "Read", inp) : id \in ToolIds, inp \in {"object", "null"}}
    \cup {ToolUse(id, "Task", "null") : id \in ToolIds}
    \cup {OtherBlock}

Contents == {<<>>} \cup {<<b>> : b \in Blocks} \cup {<<b, c>> : b, c \in Blocks}

Assistant(content) == [type |-> "assistant", subtype |-> "", content |-> content, result |-> <<>>]

Events ==
    {Assistant(c) : c \in Contents}
    \cup {[type |-> "result", subtype |-> "", content |-> <<>>, result |-> t] : t \in Texts}
    \cup {[type |-> "system", subtype |-> st, content |-> <<>>, result |-> <<>>] : st \in {"init", "status"}}
    \cup {[type |-> "user", subtype |-> "", content |-> <<OtherBlock>>, result |-> <<>>]}

\* the globals and stdout while an event is rendered; raised: an exception
\* is on its way to the handler of line 108
Rendering(last, shown, out) ==
    [last_text |-> last, shown_tools |-> shown, stdout |-> out, raised |-> FALSE]

\* str.startswith
startswith(text, prefix) ==
    Len(prefix) <= Len(text) /\ SubSeq(text, 1, Len(prefix)) = prefix

\* a slip: a text that differs from last_text is printed whole
render_text_whole(st, text) ==
    IF text # <<>> /\ text # st.last_text
    THEN [st EXCEPT !.stdout = @ \o text, !.last_text = text]
    ELSE st

\* lines 39-49: a text block
render_text(st, text) ==
    IF text # <<>> /\ text # st.last_text
    THEN [st EXCEPT !.stdout = @ \o (IF startswith(text, st.last_text)
                                       THEN SubSeq(text, Len(st.last_text) + 1, Len(text))
                                       ELSE text),
                    !.last_text = text]
    ELSE st

\* lines 51-84: a tool_use block.  The id is added to shown_tools before
\* the line is formatted; Read, Write, Edit, Bash, Glob and Grep call
\* tool_input.get, which raises when the input is not an object.
render_tool_use(st, block) ==
    IF block.id # "" /\ block.id \notin st.shown_tools
    THEN LET added == [st EXCEPT !.shown_tools = @ \cup {block.id}]
         IN  IF block.name = "Read" /\ block.input # "object"
             THEN [added EXCEPT !.raised = TRUE]
             ELSE [added EXCEPT !.stdout = Append(@, ToolLine(block.id))]
    ELSE st

\* lines 37-84: one pass of the loop over the content
render_block(st, block) ==
    IF block.type = "text" THEN render_text(st, block.text)
    ELSE IF block.type = "tool_use" THEN render_tool_use(st, block)
    ELSE st

RECURSIVE render_content(_, _)
\* lines 36-84: the loop, which an exception ends
render_content(st, content) ==
    IF content = <<>> \/ st.raised THEN st
    ELSE render_content(render_block(st, Head(content)), Tail(content))

\* lines 25-110: render_event; an exception is swallowed (lines 108-110)
\* and what was done before it stays
render_event(st, ev) ==
    IF ev.type = "assistant" THEN [render_content(st, ev.content) EXCEPT !.raised = FALSE]
    ELSE IF ev.type = "result"
    THEN IF ev.result # <<>> /\ ev.result # st.last_text
         THEN [st EXCEPT !.stdout = @ \o <<"\n">> \o ev.result, !.last_text = ev.result]
         ELSE st
    ELSE IF ev.type = "system" /\ ev.subtype = "init"
    THEN [st EXCEPT !.stdout = Append(@, "[Session]")]
    ELSE st

\* the non-empty ids of the tool_use blocks of an event
IdsOf(ev) ==
    {ev.content[i].id : i \in {j \in DOMAIN ev.content : ev.content[j].type = "tool_use"}}
        \ {""}

RECURSIVE Extends(_, _)
\* every block is a text block whose text starts with the text before it
Extends(prev, content) ==
    \/ content = <<>>
    \/ /\ Head(content).type = "text"
       /\ startswith(Head(content).text, prev)
       /\ Extends(Head(content).text, Tail(content))

\* main, lines 120-131: a line is read and parsed (lines that are not JSON
\* objects are skipped).  Only events whose output still fits are followed.
ReadLine ==
    /\ event = NoData
    /\ \E ev \in Events :
        /\ Len(render_event(Rendering(last_text, shown_tools, stdout), ev).stdout) <= MaxPrinted
        /\ event' = ev
    /\ UNCHANGED <<last_text, shown_tools, stdout, offered, chain, prev_text,
                   harness, globals, locals>>

\* main, line 132: render_event(data)
Render ==
    /\ event # NoData
    /\ LET st == render_event(Rendering(last_text, shown_tools, stdout), event)
       IN  /\ last_text' = st.last_text
           /\ shown_tools' = st.shown_tools
           /\ stdout' = st.stdout
    /\ event' = NoData
    /\ offered' = offered \cup (IF event.type = "assistant" THEN IdsOf(event) ELSE {})
    /\ IF chain /\ event.type = "assistant" /\ Extends(prev_text, event.content)
       THEN /\ chain' = TRUE
            /\ prev_text' = IF event.content = <<>> THEN prev_text
                            ELSE event.content[Len(event.content)].text
       ELSE /\ chain' = FALSE
            /\ prev_text' = <<>>
    /\ UNCHANGED <<harness, globals, locals>>

RenderNext == ReadLine \/ Render

SpecRender == Init /\ [][RenderNext]_vars

----------------------------------------------------------------------------
(* Claims about the stream renderer (SpecRender) *)

\* how often a piece is on stdout
Count(piece) == Cardinality({i \in DOMAIN stdout : stdout[i] = piece})

\* C25: between events, the tool line of an id has been printed exactly
\* once if the id is not empty and a tool_use block has carried it, and not
\* at all otherwise
C25_ToolShownOnce ==
    event = NoData =>
        \A id \in ToolIds :
            Count(ToolLine(id)) = IF id # "" /\ id \in offered THEN 1 ELSE 0

\* what a text block is to do to stdout and last_text
TextEffect(last, out, text) ==
    IF text = <<>> \/ text = last THEN <<last, out>>
    ELSE IF Len(last) <= Len(text) /\ \A i \in 1..Len(last) : text[i] = last[i]
    THEN <<text, out \o [i \in 1..(Len(text) - Len(last)) |-> text[Len(last) + i]]>>
    ELSE <<text, out \o text>>

\* C26: a text block prints nothing when its text is empty or is last_text,
\* the part beyond last_text when it extends last_text, else the whole text,
\* and last_text becomes the text exactly when something is printed; while
\* only text blocks have come, each extending the one before, all that has
\* been printed is the last text
C26_TextDedup ==
    [][/\ \A t \in Texts :
            (event = Assistant(<<TextBlock(t)>>) /\ event' = NoData) =>
                /\ <<last_text', stdout'>> = TextEffect(last_text, stdout, t)
                /\ (last_text' # last_text) <=> (stdout' # stdout)
       /\ (event' = NoData /\ chain') => stdout' = prev_text']_vars

C26_Witness ==
    /\ event = NoData
    /\ chain
    /\ prev_text = <<"a", "b">>
    /\ stdout = <<"a", "b">>
    /\ last_text = <<"a", "b">>

=============================================================================
